---- MODULE Spec2Model ----
(***************************************************************************)
(* A model of uuid6-python (src/src/uuid6/__init__.py): the DraftUUID      *)
(* constructor and its field readers, the sub-second encode/decode pair,   *)
(* and the two generators uuid6() and uuid7() with their module-level      *)
(* watermarks _last_v6_timestamp and _last_v7_timestamp.                   *)
(*                                                                         *)
(* Python integers are unbounded and behave, for &, |, ~, << and >>, as    *)
(* infinite two's complement numbers.  TLC's integers are 32 bits wide, so *)
(* a Python int is modelled as a sequence of W bits, two's complement, bit *)
(* W-1 being the sign.  W is larger than the 128 bits of a UUID so that    *)
(* the values 2^128 and -1, which the constructor must reject, are         *)
(* representable.                                                          *)
(***************************************************************************)
EXTENDS Integers, Sequences, FiniteSets, TLC

VARIABLES _last_v6_timestamp, _last_v7_timestamp, ret, issued, thr

vars == <<_last_v6_timestamp, _last_v7_timestamp, ret, issued, thr>>

-----------------------------------------------------------------------------
(* Python int arithmetic on W-bit two's complement numbers.  An int is the *)
(* sequence of its bits, least significant first: bit i is element i + 1.  *)

W == 132
Bits == 0..(W - 1)

\* An optional value: None is the empty tuple, a present value x is <<x>>.
None == <<>>
Some(x) == <<x>>

\* Bit i of x
Bit(x, i) == x[i + 1]

\* TLC keeps a function constructor unevaluated and recomputes its body at
\* every application; concatenation with <<>> yields the same sequence,
\* tabulated.  (A value named by LET is likewise recomputed at every use, so a
\* value used more than once is passed as an operator's argument or bound by
\* \E over a singleton.)
Tab(f) == f \o <<>>

\* The Python int n, for a TLC integer 0 <= n < 2^31.
FromNat(n) == Tab([p \in 1..W |-> IF p < 32 THEN (n \div (2 ^ (p - 1))) % 2 ELSE 0])

Zero == FromNat(0)
One == FromNat(1)

\* 2^k - 1: the mask 0xFF..F of k one bits.
Ones(k) == Tab([p \in 1..W |-> IF p <= k THEN 1 ELSE 0])

\* The int whose 16-bit limbs are l[1], l[2], ... from the least significant
FromLimbs(l) ==
    Tab([p \in 1..W |-> (l[((p - 1) \div 16) + 1] \div (2 ^ ((p - 1) % 16))) % 2])

\* A hexadecimal literal of up to 64 bits, given as four 16-bit groups.
Hex64(a, b, c, d) == FromLimbs(<<d, c, b, a, 0, 0, 0, 0, 0, 0>>)

\* The TLC integer held in the low k bits of x (k <= 30).
RECURSIVE LowInt(_, _)
LowInt(x, k) ==
    IF k = 0 THEN 0 ELSE Bit(x, k - 1) * (2 ^ (k - 1)) + LowInt(x, k - 1)

\* x << k
Shl(x, k) == Tab([p \in 1..W |-> IF p > k THEN x[p - k] ELSE 0])

\* x >> k (arithmetic: the sign is kept)
Shr(x, k) == Tab([p \in 1..W |-> IF p + k <= W THEN x[p + k] ELSE x[W]])

\* x & y, x | y, ~x
BitAnd(x, y) == Tab([p \in 1..W |-> x[p] * y[p]])
BitOr(x, y) == Tab([p \in 1..W |-> IF x[p] + y[p] > 0 THEN 1 ELSE 0])
BitNot(x) == Tab([p \in 1..W |-> 1 - x[p]])

\* Arithmetic is done on 16-bit limbs, which fit TLC's integers: limb k of x
\* is the number held in bits 16k .. 16k+15 (bits past W - 1 repeat the sign).
SBit(x, i) == IF i < W THEN x[i + 1] ELSE x[W]

Nibble(x, b) ==
    (SBit(x, b) + 2 * SBit(x, b + 1)) + (4 * SBit(x, b + 2) + 8 * SBit(x, b + 3))

Limb(x, k) ==
    (Nibble(x, 16 * k) + 16 * Nibble(x, 16 * k + 4))
    + (256 * Nibble(x, 16 * k + 8) + 4096 * Nibble(x, 16 * k + 12))

NLimbs == ((W - 1) \div 16) + 1

\* The limbs of x, least significant first
ToLimbs(x) == Tab([k \in 1..NLimbs |-> Limb(x, k - 1)])

\* x < y and x <= y on signed values: by sign, then by the most significant
\* limb that differs (limbs k, k - 1, ... 1 of a and b)
RECURSIVE LimbsLt(_, _, _)
LimbsLt(a, b, k) ==
    IF k = 0 THEN FALSE
    ELSE IF a[k] # b[k] THEN a[k] < b[k]
    ELSE LimbsLt(a, b, k - 1)

Lt(x, y) ==
    IF x[W] # y[W] THEN x[W] = 1 ELSE LimbsLt(ToLimbs(x), ToLimbs(y), NLimbs)

Leq(x, y) == x = y \/ Lt(x, y)

\* x + y (modulo 2^W): limbs k and up of a + b, with carry c into limb k
RECURSIVE AddFrom(_, _, _, _)
AddFrom(a, b, k, c) ==
    IF k > NLimbs THEN <<>>
    ELSE <<(a[k] + b[k] + c) % 65536>>
         \o AddFrom(a, b, k + 1, (a[k] + b[k] + c) \div 65536)

Add(x, y) == FromLimbs(AddFrom(ToLimbs(x), ToLimbs(y), 1, 0))

\* a // d and a % d for limbs a >= 0 and a TLC integer 0 < d <= 2^15, by long
\* division from limb k downwards with running remainder r.  DivFrom lists
\* the quotient's limbs and RemFrom the running remainders, from limb k down
\* to limb 1.
RECURSIVE DivFrom(_, _, _, _)
DivFrom(a, d, k, r) ==
    IF k = 0 THEN <<>>
    ELSE <<(r * 65536 + a[k]) \div d>>
         \o DivFrom(a, d, k - 1, (r * 65536 + a[k]) % d)

RECURSIVE RemFrom(_, _, _, _)
RemFrom(a, d, k, r) ==
    IF k = 0 THEN <<>>
    ELSE <<(r * 65536 + a[k]) % d>>
         \o RemFrom(a, d, k - 1, (r * 65536 + a[k]) % d)

Reverse(l) == Tab([k \in 1..Len(l) |-> l[Len(l) + 1 - k]])

LimbsDiv(a, d) == Reverse(DivFrom(a, d, NLimbs, 0))
LimbsMod(a, d) == RemFrom(a, d, NLimbs, 0)[NLimbs]

FloorDivSmall(x, d) == FromLimbs(LimbsDiv(ToLimbs(x), d))

\* a * m (modulo 2^W) for limbs a >= 0 and a TLC integer 0 <= m < 2^15: limbs
\* k and up, with carry c into limb k
RECURSIVE MulFrom(_, _, _, _)
MulFrom(a, m, k, c) ==
    IF k > NLimbs THEN <<>>
    ELSE <<(a[k] * m + c) % 65536>>
         \o MulFrom(a, m, k + 1, (a[k] * m + c) \div 65536)

LimbsMul(a, m) == MulFrom(a, m, 1, 0)

MulSmall(x, m) == FromLimbs(LimbsMul(ToLimbs(x), m))

\* 10 ** 9 = 1000 * 1000 * 1000
Kilo == 1000

\* x * 10 ** 9
MulGiga(x) == FromLimbs(LimbsMul(LimbsMul(LimbsMul(ToLimbs(x), Kilo), Kilo), Kilo))

\* x // 10 ** 9 for x >= 0
FloorDivGiga(x) ==
    FromLimbs(LimbsDiv(LimbsDiv(LimbsDiv(ToLimbs(x), Kilo), Kilo), Kilo))

\* x % 10 ** 9 for x >= 0: with x = 1000 * q1 + r1, q1 = 1000 * q2 + r2 and
\* q2 = 1000 * q + r3, x = 10^9 * q + (r1 + 1000 * r2 + 10^6 * r3)
LimbsModGiga(a) ==
    LimbsMod(a, Kilo)
    + Kilo * LimbsMod(LimbsDiv(a, Kilo), Kilo)
    + Kilo * Kilo * LimbsMod(LimbsDiv(LimbsDiv(a, Kilo), Kilo), Kilo)

ModGiga(x) == FromNat(LimbsModGiga(ToLimbs(x)))

-----------------------------------------------------------------------------
(* class DraftUUID(UUID)                                                   *)

\* raise ValueError(...): nothing is constructed
ValueError(msg) == [ok |-> FALSE, error |-> msg]

\* A faulty __init__ that sets the variant and version bits without clearing
\* the fields first
DraftUUID_unmasked(int, version) ==
    IF ~(Leq(Zero, int) /\ Lt(int, Shl(One, 128)))
    THEN ValueError("int is out of range (need a 128-bit value)")
    ELSE IF version # None /\ ~(6 <= version[1] /\ version[1] <= 7)
    THEN ValueError("illegal version number")
    ELSE IF version # None
    THEN [ok |-> TRUE,
          int |-> BitOr(BitOr(int, Shl(FromNat(\h8000), 48)),
                        Shl(FromNat(version[1]), 76))]
    ELSE [ok |-> TRUE, int |-> int]

\* A faulty __init__ whose range test is 0 <= int <= 1 << 128
DraftUUID_inclusive(int, version) ==
    IF ~(Leq(Zero, int) /\ Leq(int, Shl(One, 128)))
    THEN ValueError("int is out of range (need a 128-bit value)")
    ELSE IF version # None /\ ~(6 <= version[1] /\ version[1] <= 7)
    THEN ValueError("illegal version number")
    ELSE IF version # None
    THEN [ok |-> TRUE,
          int |-> BitOr(BitAnd(BitOr(BitAnd(int, BitNot(Shl(FromNat(\hC000), 48))),
                                     Shl(FromNat(\h8000), 48)),
                               BitNot(Shl(FromNat(\hF000), 64))),
                        Shl(FromNat(version[1]), 76))]
    ELSE [ok |-> TRUE, int |-> int]

\* DraftUUID.__init__(self, int, version=None); version is None or Some(n)
DraftUUID(int, version) ==
    IF ~(Leq(Zero, int) /\ Lt(int, Shl(One, 128)))
    THEN ValueError("int is out of range (need a 128-bit value)")
    ELSE IF version # None /\ ~(6 <= version[1] /\ version[1] <= 7)
    THEN ValueError("illegal version number")
    ELSE IF version # None
    THEN LET i1 == BitAnd(int, BitNot(Shl(FromNat(\hC000), 48)))
             i2 == BitOr(i1, Shl(FromNat(\h8000), 48))
             i3 == BitAnd(i2, BitNot(Shl(FromNat(\hF000), 64)))
             i4 == BitOr(i3, Shl(FromNat(version[1]), 76))
         IN  [ok |-> TRUE, int |-> i4]
    ELSE [ok |-> TRUE, int |-> int]

\* The fields DraftUUID inherits from uuid.UUID, read by subsec, time, unixts.
time_low(u) == Shr(u, 96)
time_mid(u) == BitAnd(Shr(u, 80), FromNat(\hFFFF))
time_hi_version(u) == BitAnd(Shr(u, 64), FromNat(\hFFFF))
clock_seq_hi_variant(u) == BitAnd(Shr(u, 56), FromNat(\hFF))

\* uuid.UUID.version: the version nibble of an RFC 4122 variant, else None
version(u) ==
    IF Bit(u, 63) = 1 /\ Bit(u, 62) = 0 THEN Some(LowInt(Shr(u, 76), 4)) ELSE None

\* math.ceil(value * 10 ** 9 / 2 ** 30).  value < 2^30, and
\* value * 10^9 = value * 5^9 * 2^9 with value * 5^9 < 2^53, so the float
\* quotient is exact and its ceiling is the ceiling of the exact quotient.
CeilShr(p, k) ==
    IF BitAnd(p, Ones(k)) = Zero THEN Shr(p, k) ELSE Add(Shr(p, k), One)

\* A faulty decode that rounds down: value * 10 ** 9 // 2 ** 30
_subsec_decode_floor(value) == Shr(MulGiga(value), 30)

_subsec_decode(value) == CeilShr(MulGiga(value), 30)

\* A faulty encode that rounds up: -(-value * 2 ** 30 // 10 ** 9)
_subsec_encode_ceil(value) ==
    FloorDivGiga(Add(Shl(value, 30), FromNat(Kilo * Kilo * Kilo - 1)))

\* value * 2 ** 30 // 10 ** 9
_subsec_encode(value) == FloorDivGiga(Shl(value, 30))

\* DraftUUID.subsec
subsec(u) ==
    BitOr(BitOr(Shl(BitAnd(time_mid(u), FromNat(\h0FFF)), 18),
                Shl(BitAnd(time_hi_version(u), FromNat(\h0FFF)), 6)),
          BitAnd(clock_seq_hi_variant(u), FromNat(\h3F)))

\* A faulty unixts that leaves out the four bits held in time_mid
unixts_time_low(u) == Shl(time_low(u), 4)

\* DraftUUID.unixts
unixts(u) == BitOr(Shl(time_low(u), 4), Shr(time_mid(u), 12))

\* uuid.UUID.time, the fallback of DraftUUID.time
uuid1_time(u) ==
    BitOr(BitOr(Shl(BitAnd(time_hi_version(u), FromNat(\h0FFF)), 48),
                Shl(time_mid(u), 32)),
          time_low(u))

\* A faulty time that reads every version in the version-1 field order
time_v1_order(u) == uuid1_time(u)

\* DraftUUID.time
time(u) ==
    IF version(u) = Some(6)
    THEN BitOr(BitOr(Shl(time_low(u), 28), Shl(time_mid(u), 12)),
               BitAnd(time_hi_version(u), FromNat(\h0FFF)))
    ELSE IF version(u) = Some(7)
    THEN Add(MulGiga(unixts(u)), _subsec_decode(subsec(u)))
    ELSE uuid1_time(u)

-----------------------------------------------------------------------------
(* def uuid6(clock_seq=None) and def uuid7()                               *)

\* 0x01B21DD213814000: 100-ns intervals from 1582-10-15 to 1970-01-01
UuidEpochOffset == Hex64(\h01B2, \h1DD2, \h1381, \h4000)

\* uuid6, line 83: the clock reading as a count of 100-ns ticks since the
\* UUID epoch
uuid6_candidate(nanoseconds) ==
    Add(FloorDivSmall(nanoseconds, 100), UuidEpochOffset)

\* A faulty line 85 that reissues the watermark: timestamp = _last_v6_timestamp
uuid6_advance_reissue(last, timestamp) ==
    IF last # None /\ Leq(timestamp, last[1])
    THEN last[1]
    ELSE timestamp

\* uuid6, lines 84-85: the timestamp issued for the candidate, given the
\* watermark last (None or Some(t))
uuid6_advance(last, timestamp) ==
    IF last # None /\ Leq(timestamp, last[1])
    THEN Add(last[1], One)
    ELSE timestamp

\* uuid6, lines 87-96: clock_seq is None or Some(c); rand14 and node are what
\* _getrandbits(14) and _getrandbits(48) return
uuid6_pack(timestamp, clock_seq, rand14, node) ==
    LET cs == IF clock_seq = None THEN rand14 ELSE clock_seq[1]
        time_high_and_time_mid == BitAnd(Shr(timestamp, 12), Ones(48))
        time_low_and_version == BitAnd(timestamp, FromNat(\h0FFF))
        u1 == Shl(time_high_and_time_mid, 80)
        u2 == BitOr(u1, Shl(time_low_and_version, 64))
        u3 == BitOr(u2, Shl(BitAnd(cs, FromNat(\h3FFF)), 48))
        u4 == BitOr(u3, node)
    IN  DraftUUID(u4, Some(6))

\* A faulty line 111 that compares with < : an equal reading is kept
uuid7_advance_strict(last, nanoseconds) ==
    IF last # None /\ Lt(nanoseconds, last[1])
    THEN Add(last[1], One)
    ELSE nanoseconds

\* uuid7, lines 111-112
uuid7_advance(last, nanoseconds) ==
    IF last # None /\ Leq(nanoseconds, last[1])
    THEN Add(last[1], One)
    ELSE nanoseconds

\* A faulty layout that drops the sub-second fields: seconds and random bits
uuid7_layout_seconds(timestamp_s, sub, rand) ==
    DraftUUID(BitOr(Shl(BitAnd(timestamp_s, Ones(36)), 92), rand), Some(7))

\* uuid7, lines 116-125: rand is what _getrandbits(56) returns
uuid7_layout(timestamp_s, sub, rand) ==
    LET subsec_a == Shr(sub, 18)
        subsec_b == BitAnd(Shr(sub, 6), FromNat(\h0FFF))
        subsec_c == BitAnd(sub, FromNat(\h3F))
        u1 == Shl(BitAnd(timestamp_s, Ones(36)), 92)
        u2 == BitOr(u1, Shl(subsec_a, 80))
        u3 == BitOr(u2, Shl(subsec_b, 64))
        u4 == BitOr(u3, Shl(subsec_c, 56))
        u5 == BitOr(u4, rand)
    IN  DraftUUID(u5, Some(7))

\* uuid7, lines 114-125: timestamp_s, timestamp_ns = divmod(nanoseconds,
\* 10 ** 9); subsec = _subsec_encode(timestamp_ns); then the layout
uuid7_pack(nanoseconds, rand) ==
    uuid7_layout(FloorDivGiga(nanoseconds),
                 _subsec_encode(ModGiga(nanoseconds)), rand)

-----------------------------------------------------------------------------
(* Inputs.  The clock, the random source and the callers' arguments are    *)
(* drawn from small sets that hold the repository's test vectors and the   *)
(* boundary values of every field.                                         *)

\* Calls made in one run of the generators
MaxCalls == 3

\* Readings of time.time_ns(): the v7 test vector; the v6 test vector, which
\* is later; the last nanosecond of the v6 vector's second.  A run may read
\* them in any order, so the clock can stand still and step back.
ClockV7Vector == MulSmall(MulSmall(Hex64(0, \h017F, \h21CF, \hD130), Kilo), Kilo)
ClockV6Vector == Hex64(\h16D6, \h320C, \h3D4D, \hCC00)
ClockEndOfSecond == Add(ClockV6Vector, FromNat(999999999))

ClockReadings == { ClockV7Vector, ClockV6Vector, ClockEndOfSecond }

\* uuid6's argument and random draws: <<clock_seq, _getrandbits(14),
\* _getrandbits(48)>>
Uuid6Draws ==
    { <<Some(FromNat(\hB3C8)), Zero, Hex64(0, \h9E6B, \hDECE, \hD846)>>,
      <<None, Ones(14), Ones(48)>> }

\* uuid7's random draw _getrandbits(56)
Uuid7Draws == { Zero, Ones(56) }

-----------------------------------------------------------------------------
(* The generators, called one after the other in one process.  issued      *)
(* records, per kind and in call order, what each call stored in the       *)
(* watermark and returned; ret describes the latest call.                  *)

NoCalls == [v6 |-> <<>>, v7 |-> <<>>]
Idle == [op |-> "none"]

Calls == Len(issued.v6) + Len(issued.v7)

Init ==
    /\ _last_v6_timestamp = None
    /\ _last_v7_timestamp = None
    /\ ret = Idle
    /\ issued = NoCalls
    /\ thr = <<>>

Uuid6(clock, draw) ==
    /\ Calls < MaxCalls
    /\ \E candidate \in {uuid6_candidate(clock)} :
       \E timestamp \in {uuid6_advance(_last_v6_timestamp, candidate)} :
       \E uuid \in {uuid6_pack(timestamp, draw[1], draw[2], draw[3])} :
           /\ _last_v6_timestamp' = Some(timestamp)
           /\ ret' = [op |-> "uuid6", clock |-> clock, candidate |-> candidate,
                      before |-> _last_v6_timestamp, timestamp |-> timestamp,
                      uuid |-> uuid]
           /\ issued' = [issued EXCEPT !.v6 =
                           Append(@, [timestamp |-> timestamp, uuid |-> uuid])]
    /\ UNCHANGED <<_last_v7_timestamp, thr>>

Uuid7(clock, rand) ==
    /\ Calls < MaxCalls
    /\ \E nanoseconds \in {uuid7_advance(_last_v7_timestamp, clock)} :
       \E uuid \in {uuid7_pack(nanoseconds, rand)} :
           /\ _last_v7_timestamp' = Some(nanoseconds)
           /\ ret' = [op |-> "uuid7", clock |-> clock, candidate |-> clock,
                      before |-> _last_v7_timestamp, timestamp |-> nanoseconds,
                      uuid |-> uuid]
           /\ issued' = [issued EXCEPT !.v7 =
                           Append(@, [timestamp |-> nanoseconds, uuid |-> uuid])]
    /\ UNCHANGED <<_last_v6_timestamp, thr>>

Next ==
    \/ \E clock \in ClockReadings, draw \in Uuid6Draws : Uuid6(clock, draw)
    \/ \E clock \in ClockReadings, rand \in Uuid7Draws : Uuid7(clock, rand)

Spec == Init /\ [][Next]_vars

-----------------------------------------------------------------------------
(* The constructor, the conversions and the two packings called once each  *)
(* on an argument drawn from the sets below; ret holds the call.           *)

\* int arguments of DraftUUID: 0, 2^128 - 1, -1, 2^128, 2^128 + 1, the v6 test
\* vector's UUID, every power of two the integers of the model hold (the top
\* one is negative), and 2^128 - 1 with one bit cleared
IntInputs ==
    { Zero, Ones(128), BitNot(Zero), Shl(One, 128), Add(Shl(One, 128), One),
      BitOr(Shl(Hex64(\h1EC9, \h414C, \h232A, \h6B00), 64),
            Hex64(\hB3C8, \h9E6B, \hDECE, \hD846)) }
    \cup { Shl(One, k) : k \in Bits }
    \cup { BitAnd(Ones(128), BitNot(Shl(One, k))) : k \in 0..127 }

\* version arguments of DraftUUID
VersionInputs == { None, Some(5), Some(6), Some(7), Some(8) }

Giga == Kilo * Kilo * Kilo

\* Width of the runs of consecutive remainders taken at both ends of
\* [0, 10^9)
SubsecEdge == 50

\* Nanosecond remainders: both ends of [0, 10^9), and the neighbourhood of
\* every multiple of 5^9, where n * 2^30 / 10^9 is an integer
SubsecInputs ==
    (0..SubsecEdge) \cup ((Giga - 1 - SubsecEdge)..(Giga - 1))
    \cup { k * 1953125 + d : k \in 1..511, d \in {-1, 0, 1} }

\* 60-bit timestamps: 0, 2^60 - 1, the v6 test vector's, every power of two
\* and 2^60 - 1 with one bit cleared
TimestampInputs ==
    { Zero, Ones(60), uuid6_candidate(ClockV6Vector) }
    \cup { Shl(One, k) : k \in 0..59 }
    \cup { BitAnd(Ones(60), BitNot(Shl(One, k))) : k \in 0..59 }

\* Whole seconds around the widths 32, 36 and 40
SecondsInputs ==
    { Zero, One, FloorDivGiga(ClockV7Vector), Ones(32), Shl(One, 32),
      Ones(36), Shl(One, 36), Add(Shl(One, 36), One), Ones(40) }

\* Nanosecond remainders joined to SecondsInputs
RemainderInputs == { 0, 1, 123456789, 500000000, Giga - 1 }

\* DraftUUID(int, version)
Construct(int, ver) ==
    /\ ret = Idle
    /\ ret' = [op |-> "DraftUUID", int |-> int, version |-> ver,
               result |-> DraftUUID(int, ver)]
    /\ UNCHANGED <<_last_v6_timestamp, _last_v7_timestamp, issued, thr>>

\* _subsec_decode(_subsec_encode(n))
SubsecRoundTrip(n) ==
    /\ ret = Idle
    /\ \E fraction \in {_subsec_encode(FromNat(n))} :
           ret' = [op |-> "subsec", n |-> FromNat(n), fraction |-> fraction,
                   decoded |-> _subsec_decode(fraction)]
    /\ UNCHANGED <<_last_v6_timestamp, _last_v7_timestamp, issued, thr>>

\* The round trip over all of SubsecInputs: the remainders it does not return
SubsecSweep ==
    /\ ret = Idle
    /\ ret' = [op |-> "sweep",
               changed |-> { n \in SubsecInputs :
                   _subsec_decode(_subsec_encode(FromNat(n))) # FromNat(n) }]
    /\ UNCHANGED <<_last_v6_timestamp, _last_v7_timestamp, issued, thr>>

\* uuid6, lines 87-96, on timestamp, and DraftUUID.time of the result
Pack6(timestamp, draw) ==
    /\ ret = Idle
    /\ \E uuid \in {uuid6_pack(timestamp, draw[1], draw[2], draw[3])} :
           ret' = [op |-> "pack6", timestamp |-> timestamp, uuid |-> uuid,
                   time |-> IF uuid.ok THEN Some(time(uuid.int)) ELSE None]
    /\ UNCHANGED <<_last_v6_timestamp, _last_v7_timestamp, issued, thr>>

\* uuid7, lines 114-125, on nanoseconds, and DraftUUID.time of the result
Pack7(seconds, remainder, rand) ==
    /\ ret = Idle
    /\ \E nanoseconds \in {Add(MulGiga(seconds), FromNat(remainder))} :
       \E uuid \in {uuid7_pack(nanoseconds, rand)} :
           ret' = [op |-> "pack7", nanoseconds |-> nanoseconds, uuid |-> uuid,
                   time |-> IF uuid.ok THEN Some(time(uuid.int)) ELSE None]
    /\ UNCHANGED <<_last_v6_timestamp, _last_v7_timestamp, issued, thr>>

NextFn ==
    \/ \E int \in IntInputs, ver \in VersionInputs : Construct(int, ver)
    \/ \E n \in SubsecInputs : SubsecRoundTrip(n)
    \/ SubsecSweep
    \/ \E timestamp \in TimestampInputs, draw \in Uuid6Draws :
           Pack6(timestamp, draw)
    \/ \E seconds \in SecondsInputs, remainder \in RemainderInputs,
          rand \in Uuid7Draws : Pack7(seconds, remainder, rand)

SpecFn == Init /\ [][NextFn]_vars

-----------------------------------------------------------------------------
(* uuid6 and uuid7 called from several threads of one process.  The        *)
(* functions take no lock, so a thread switch can fall between any two     *)
(* reads and writes of the module global a call makes: the two reads of    *)
(* the condition on line 84 (111), the read on line 85 (112) and the write *)
(* on line 86 (113).  Each thread makes one call; thr[t] holds the         *)
(* thread's position in it and its local variable timestamp (nanoseconds   *)
(* in uuid7).  Lines 87-96 (114-125) touch nothing shared.                 *)

\* Threads of the process
NThreads == 2
Threads == 1..NThreads

Kinds == { "v6", "v7" }

\* The module global of a kind
Watermark(kind) ==
    IF kind = "v6" THEN _last_v6_timestamp ELSE _last_v7_timestamp

InitThreads ==
    /\ _last_v6_timestamp = None
    /\ _last_v7_timestamp = None
    /\ ret = Idle
    /\ issued = NoCalls
    /\ thr = [t \in Threads |-> [pc |-> "idle"]]

\* Lines 80-83 (110): the thread enters the function and reads the clock
ThreadEnter(t, kind, clock) ==
    /\ thr[t].pc = "idle"
    /\ thr' = [thr EXCEPT ![t] =
                 [pc |-> "is_none", kind |-> kind,
                  timestamp |-> IF kind = "v6" THEN uuid6_candidate(clock)
                                               ELSE clock]]
    /\ UNCHANGED <<_last_v6_timestamp, _last_v7_timestamp, ret, issued>>

\* Line 84 (111), left operand of and: _last_v6_timestamp is not None
ThreadIsNotNone(t) ==
    /\ thr[t].pc = "is_none"
    /\ thr' = [thr EXCEPT ![t].pc =
                 IF Watermark(thr[t].kind) # None THEN "compare" ELSE "store"]
    /\ UNCHANGED <<_last_v6_timestamp, _last_v7_timestamp, ret, issued>>

\* Line 84 (111), right operand: timestamp <= _last_v6_timestamp.  Nothing
\* sets the global back to None, so it holds a number here.
ThreadCompare(t) ==
    /\ thr[t].pc = "compare"
    /\ thr' = [thr EXCEPT ![t].pc =
                 IF Leq(thr[t].timestamp, Watermark(thr[t].kind)[1])
                 THEN "advance" ELSE "store"]
    /\ UNCHANGED <<_last_v6_timestamp, _last_v7_timestamp, ret, issued>>

\* Line 85 (112): timestamp = _last_v6_timestamp + 1
ThreadAdvance(t) ==
    /\ thr[t].pc = "advance"
    /\ thr' = [thr EXCEPT ![t].pc = "store",
                          ![t].timestamp = Add(Watermark(thr[t].kind)[1], One)]
    /\ UNCHANGED <<_last_v6_timestamp, _last_v7_timestamp, ret, issued>>

\* Line 86 (113): _last_v6_timestamp = timestamp; the call goes on to
\* return a UUID of this timestamp
ThreadStore(t) ==
    /\ thr[t].pc = "store"
    /\ IF thr[t].kind = "v6"
       THEN /\ _last_v6_timestamp' = Some(thr[t].timestamp)
            /\ issued' = [issued EXCEPT !.v6 =
                  Append(@, [timestamp |-> thr[t].timestamp, thread |-> t])]
            /\ UNCHANGED _last_v7_timestamp
       ELSE /\ _last_v7_timestamp' = Some(thr[t].timestamp)
            /\ issued' = [issued EXCEPT !.v7 =
                  Append(@, [timestamp |-> thr[t].timestamp, thread |-> t])]
            /\ UNCHANGED _last_v6_timestamp
    /\ ret' = [op |-> "thread", kind |-> thr[t].kind, thread |-> t,
               timestamp |-> thr[t].timestamp]
    /\ thr' = [thr EXCEPT ![t].pc = "done"]

NextThreads ==
    \/ \E t \in Threads, kind \in Kinds, clock \in ClockReadings :
           ThreadEnter(t, kind, clock)
    \/ \E t \in Threads : ThreadIsNotNone(t)
    \/ \E t \in Threads : ThreadCompare(t)
    \/ \E t \in Threads : ThreadAdvance(t)
    \/ \E t \in Threads : ThreadStore(t)

SpecThreads == InitThreads /\ [][NextThreads]_vars

-----------------------------------------------------------------------------
(* Properties of the generators called one after the other (Spec)          *)

\* The timestamps a kind issued, in call order, strictly increase
Increasing(calls) ==
    \A i \in 1..Len(calls) : \A j \in 1..Len(calls) :
        i < j => Lt(calls[i].timestamp, calls[j].timestamp)

\* The module global holds what the kind's latest call issued, None before
\* the first call
HoldsLatest(last, calls) ==
    IF calls = <<>> THEN last = None
                    ELSE last = Some(calls[Len(calls)].timestamp)

\* C1: for each kind taken separately, whatever the interleaving with calls
\* of the other kind and whatever the clock reads (equal, later or earlier
\* readings), the timestamps issued to the kind's successive calls, which are
\* the values its module global holds after each call, strictly increase.
C1_StrictlyIncreasing ==
    /\ Increasing(issued.v6)
    /\ Increasing(issued.v7)
    /\ HoldsLatest(_last_v6_timestamp, issued.v6)
    /\ HoldsLatest(_last_v7_timestamp, issued.v7)

\* C1 witness: a uuid7 call that follows a uuid7 call and a uuid6 call and
\* whose clock reading is not later than the watermark it found
C1_ClockNotAdvanced ==
    /\ ret.op = "uuid7"
    /\ Len(issued.v7) >= 2
    /\ Len(issued.v6) >= 1
    /\ Leq(ret.clock, ret.before[1])

\* The watermark step of the call ret describes, given the module global of
\* its kind after the call
WatermarkStep(after) ==
    /\ ret.before = None => ret.timestamp = ret.candidate
    /\ ret.before # None /\ Leq(ret.candidate, ret.before[1])
           => ret.timestamp = Add(ret.before[1], One)
    /\ ret.before # None /\ ~Leq(ret.candidate, ret.before[1])
           => ret.timestamp = ret.candidate
    /\ after = Some(ret.timestamp)
    /\ Leq(ret.candidate, ret.timestamp)

\* C8: a call on an unset watermark issues the candidate derived from the
\* clock; a call whose candidate is less than or equal to the watermark
\* issues watermark + 1; any other call issues the candidate.  In all three
\* cases the kind's watermark after the call is the issued timestamp, and the
\* issued timestamp is not less than the candidate.
C8_WatermarkStep ==
    /\ ret.op = "uuid6" => WatermarkStep(_last_v6_timestamp)
    /\ ret.op = "uuid7" => WatermarkStep(_last_v7_timestamp)

\* C8 witness: a uuid6 call whose candidate tick equals the watermark and
\* which issued the next tick
C8_SameTick ==
    /\ ret.op = "uuid6"
    /\ ret.before = Some(ret.candidate)
    /\ ret.timestamp = Add(ret.candidate, One)

\* Bounds of the timestamps that fit their fields: 2^60 ticks, 2^36 seconds
V6Limit == Shl(One, 60)
V7Limit == MulGiga(Shl(One, 36))

\* The UUIDs of a kind's calls, in call order, strictly increase as 128-bit
\* integers, as far as the issued timestamps are below limit
TimeOrdered(calls, limit) ==
    \A i \in 1..Len(calls) : \A j \in 1..Len(calls) :
        (i < j /\ Lt(calls[i].timestamp, limit) /\ Lt(calls[j].timestamp, limit))
            => /\ calls[i].uuid.ok
               /\ calls[j].uuid.ok
               /\ Lt(calls[i].uuid.int, calls[j].uuid.int)

\* C7: of two calls of the same generator made one after the other, whatever
\* the clock reads and whatever the random bits, the earlier UUID is strictly
\* less than the later one as a 128-bit integer, provided the issued
\* timestamps fit their fields (v6 ticks < 2^60, v7 whole seconds < 2^36).
C7_TimeOrdered ==
    /\ TimeOrdered(issued.v6, V6Limit)
    /\ TimeOrdered(issued.v7, V7Limit)

\* C7 witness: two uuid7 calls in a row on the same clock reading, the first
\* with all 56 random bits set and the second with none
C7_RandomBitsDecrease ==
    /\ ret.op = "uuid7"
    /\ Len(issued.v7) >= 2
    /\ Lt(ret.timestamp, V7Limit)
    /\ ret.before = Some(ret.clock)
    /\ BitAnd(issued.v7[Len(issued.v7) - 1].uuid.int, Ones(56)) = Ones(56)
    /\ BitAnd(ret.uuid.int, Ones(56)) = Zero

-----------------------------------------------------------------------------
(* Properties of the constructor, the conversions and the packings         *)
(* (SpecFn)                                                                *)

\* 0 <= x < 2^128, read off the bits
InRange128(x) == \A i \in 128..(W - 1) : Bit(x, i) = 0

\* The bits DraftUUID stamps: the variant in 63..62, the version in 79..76
StampedBits == { 62, 63, 76, 77, 78, 79 }

\* C2: for every v in [0, 2^128) and version 6 or 7, DraftUUID(v, version)
\* has bits 63..62 equal to binary 10, bits 79..76 equal to the version, and
\* each of the other 122 bits equal to the same bit of v; with no version
\* the value is v bit for bit.
C2_VersionVariantTagging ==
    (ret.op = "DraftUUID" /\ InRange128(ret.int))
        => /\ ret.version \in { Some(6), Some(7) }
                => /\ ret.result.ok
                   /\ Bit(ret.result.int, 63) = 1
                   /\ Bit(ret.result.int, 62) = 0
                   /\ LowInt(Shr(ret.result.int, 76), 4) = ret.version[1]
                   /\ \A i \in Bits \ StampedBits :
                          Bit(ret.result.int, i) = Bit(ret.int, i)
           /\ ret.version = None
                => /\ ret.result.ok
                   /\ ret.result.int = ret.int

\* C2 witness: 2^128 - 1 constructed as version 6, which has to clear bit 62
\* and bits 79 and 76
C2_AllOnesAsVersion6 ==
    /\ ret.op = "DraftUUID"
    /\ ret.int = Ones(128)
    /\ ret.version = Some(6)
    /\ ret.result.ok
    /\ ret.result.int # ret.int

\* C3: DraftUUID(value, version) raises, constructing nothing, whenever value
\* < 0 or value >= 2^128, whatever the version, and whenever a version other
\* than 6 and 7 is given; for every value in [0, 2^128) with version absent,
\* 6 or 7 it succeeds.
C3_RangeErrors ==
    ret.op = "DraftUUID"
        => /\ ret.result.ok
                <=> (InRange128(ret.int) /\ ret.version \in { None, Some(6), Some(7) })
           /\ ~ret.result.ok => DOMAIN ret.result = { "ok", "error" }

\* C3 witness: the three refusals (-1 and 2^128 with a legal version, 0 with
\* version 5)
C3_Refused ==
    /\ ret.op = "DraftUUID"
    /\ ~ret.result.ok
    /\ \/ ret.int = BitNot(Zero) /\ ret.version = Some(6)
       \/ ret.int = Shl(One, 128) /\ ret.version = None
       \/ ret.int = Zero /\ ret.version = Some(5)

\* C4: for every timestamp t in [0, 2^60) and every clock sequence and node,
\* the UUID uuid6 packs from t has DraftUUID.time equal to t.
C4_V6TimeRoundTrip ==
    (ret.op = "pack6" /\ Leq(Zero, ret.timestamp) /\ Lt(ret.timestamp, V6Limit))
        => /\ ret.uuid.ok
           /\ version(ret.uuid.int) = Some(6)
           /\ ret.time = Some(ret.timestamp)

\* C4 witness: the repository's version-6 test vector,
\* 1ec9414c-232a-6b00-b3c8-9e6bdeced846
C4_TestVector ==
    /\ ret.op = "pack6"
    /\ ret.timestamp = uuid6_candidate(ClockV6Vector)
    /\ ret.uuid.ok
    /\ ret.uuid.int = BitOr(Shl(Hex64(\h1EC9, \h414C, \h232A, \h6B00), 64),
                            Hex64(\hB3C8, \h9E6B, \hDECE, \hD846))

\* C5: for every nanosecond remainder n in [0, 10^9),
\* n' = _subsec_decode(_subsec_encode(n)) satisfies n' >= n and n' - n < 2.
C5_SubsecBounded ==
    ret.op = "subsec"
        => /\ Leq(ret.n, ret.decoded)
           /\ Lt(ret.decoded, Add(ret.n, FromNat(2)))

\* C5 witness: the largest remainder, whose fraction 2^30 - 2 was rounded down
C5_LargestRemainder ==
    /\ ret.op = "subsec"
    /\ ret.n = FromNat(Giga - 1)
    /\ ret.fraction = BitAnd(Ones(30), BitNot(One))

\* The seconds and the time DraftUUID.time has to give for the nanosecond
\* timestamp ret.nanoseconds, as far as the seconds are below limit
SecondsReadBack(limit) ==
    (ret.op = "pack7" /\ Lt(FloorDivGiga(ret.nanoseconds), limit))
        => /\ ret.uuid.ok
           /\ FloorDivGiga(ret.time[1]) = FloorDivGiga(ret.nanoseconds)
           /\ ret.time[1] =
                  Add(MulGiga(FloorDivGiga(ret.nanoseconds)),
                      _subsec_decode(_subsec_encode(ModGiga(ret.nanoseconds))))

C10_SomeRemainderChanges == ret.op = "sweep" => ret.changed # {}

\* C10: encode rounds down and decode rounds up, and the two cancel.  Every
\* nanosecond remainder n in [0, 10^9) has
\* _subsec_decode(_subsec_encode(n)) = n.
C10_SubsecExact ==
    /\ ret.op = "subsec" => ret.decoded = ret.n
    /\ ret.op = "sweep" => ret.changed = {}

\* C10 witness: remainder 1, whose fraction 1.07... was rounded down to 1 and
\* decoded from 0.93... up to 1
C10_RoundedBothWays ==
    /\ ret.op = "subsec"
    /\ ret.n = One
    /\ ret.fraction = One
    /\ ret.decoded = One
    /\ Shl(ret.n, 30) # MulGiga(ret.fraction)

-----------------------------------------------------------------------------
(* Property of the generators called from several threads (SpecThreads)    *)

\* No two calls of a kind stored the same timestamp in its module global
Distinct(calls) ==
    \A i \in 1..Len(calls) : \A j \in 1..Len(calls) :
        i # j => calls[i].timestamp # calls[j].timestamp

\* C6 as stated: the read of a kind's watermark, its comparison with the
\* clock reading and the write of the new watermark are one atomic step of a
\* call, so however two threads' calls of the same kind interleave, no two
\* of them are issued the same timestamp.
C6_NoTimestampIssuedTwice ==
    /\ Distinct(issued.v6)
    /\ Distinct(issued.v7)

====
